---- MODULE Spec2Model ----
(***************************************************************************)
(* Session layer of the ORM (pkg/orm/orm.go): ormBase CRUD entry points,   *)
(* orm.Begin*/DoTx* and txOrm.Commit/Rollback, over an abstract executor   *)
(* (connection pool and transactions) and an abstract DbBaser.             *)
(***************************************************************************)
EXTENDS Integers, Sequences, FiniteSets, TLC

\* ---------------------------------------------------------------- bounds
MaxId == 1      \* largest primary key a caller puts into a record
MaxKey == 1     \* largest value of the unique column
MaxTx == 1      \* transactions the pool can open in one run
MaxLen == 2     \* longest sequence handed to InsertMulti
MaxTxOps == 1   \* operations in one run next to Begin, Commit and Rollback
MaxTaskOps == 2 \* operations in one run next to the steps of DoTx

\* ------------------------------------------------------------- constants
Pool == 0                   \* the pooled connection (al.DB) as an executor
DefaultRelsDepth == 2

Nil == "nil"
ErrTxDone == "ErrTxDone"
ErrNoRows == "ErrNoRows"
ErrArgs == "ErrArgs"
DriverErr == "DriverErr"    \* opaque failure of the driver / connection
ErrDup == "ErrDup"          \* driver error: uniqueness constraint violated

TxIds == 1..MaxTx
Execs == {Pool} \cup TxIds
Keys == 0..MaxKey
Ids == 0..MaxId

\* ------------------------------------------------------- Schema Registry
\* modelCache: the registered models.  "Ghost" is a record type that was
\* never registered.
modelCache == {"User", "Tag", "Profile"}
Types == modelCache \cup {"Ghost"}

\* mi.fields.pk.auto / .rel / .fieldType&IsPositiveIntegerField
pkAuto(mi) == mi = "User"
pkRel(mi) == mi = "Profile"
pkPositive(mi) == mi = "Tag"
relModelInfo(mi) == "User"

\* A caller's record: its type, whether it was passed by pointer, the value
\* of the primary-key field, the unique column, and (for a relational
\* primary key) whether the pointer to the related record is non-nil; the
\* related record's own primary key is then `id`.
Mds ==
  { md \in [type : Types, byPtr : BOOLEAN, id : Ids, key : Keys, rel : BOOLEAN] :
      /\ (~pkRel(md.type)) => ~md.rel
      /\ (pkRel(md.type) /\ ~md.rel) => md.id = 0 }

\* ------------------------------------------------- executor and database
\* st.rows: committed rows; st.tx[k]: transaction k with the rows it has
\* inserted (ins) and the committed rows it has deleted (del);
\* st.nextId: next auto-generated identity.
NoTx == [st |-> "none", ins |-> {}, del |-> {}]
Store0 == [rows |-> {}, tx |-> [k \in TxIds |-> NoTx], nextId |-> 1]

Usable(st, q) == q = Pool \/ st.tx[q].st = "open"
View(st, q) ==
  IF q = Pool THEN st.rows ELSE (st.rows \ st.tx[q].del) \cup st.tx[q].ins
Busy(st) ==
  st.rows \cup UNION { st.tx[k].ins : k \in { j \in TxIds : st.tx[j].st = "open" } }

AddRow(st, q, row) ==
  IF q = Pool THEN [st EXCEPT !.rows = @ \cup {row}]
  ELSE [st EXCEPT !.tx[q].ins = @ \cup {row}]
DropRow(st, q, row) ==
  IF q = Pool THEN [st EXCEPT !.rows = @ \ {row}]
  ELSE IF row \in st.tx[q].ins THEN [st EXCEPT !.tx[q].ins = @ \ {row}]
  ELSE [st EXCEPT !.tx[q].del = @ \cup {row}]

Match(row, mi, md, col) ==
  /\ row.t = mi
  /\ IF col = "pk" THEN row.id = md.id /\ (pkRel(mi) => md.rel)
     ELSE row.key = md.key

\* DbBaser.Read(q, mi, ind, tz, cols, isForUpdate)
DbRead(st, q, mi, md, col, fail) ==
  IF ~Usable(st, q) THEN [md |-> md, err |-> ErrTxDone]
  ELSE IF fail THEN [md |-> md, err |-> DriverErr]
  ELSE LET hits == { r \in View(st, q) : Match(r, mi, md, col) } IN
       IF hits = {} THEN [md |-> md, err |-> ErrNoRows]
       ELSE LET r == CHOOSE x \in hits : TRUE IN
            [md |-> [md EXCEPT !.id = r.id, !.key = r.key, !.rel = pkRel(mi)],
             err |-> Nil]

\* DbBaser.Insert(q, mi, ind, tz)
DbInsert(st, q, mi, md, fail) ==
  LET id == IF pkAuto(mi) THEN st.nextId ELSE md.id
      row == [t |-> mi, id |-> id, key |-> md.key]
  IN
  IF ~Usable(st, q) THEN [st |-> st, id |-> 0, err |-> ErrTxDone]
  ELSE IF fail \/ (pkRel(mi) /\ ~md.rel) THEN [st |-> st, id |-> 0, err |-> DriverErr]
  ELSE IF \E r \in Busy(st) : r.t = mi /\ (r.id = id \/ r.key = md.key)
       THEN [st |-> st, id |-> 0, err |-> ErrDup]
  ELSE [st |-> [AddRow(st, q, row) EXCEPT !.nextId = IF pkAuto(mi) THEN @ + 1 ELSE @],
        id |-> id, err |-> Nil]

\* DbBaser.Update(q, mi, ind, tz, cols)
DbUpdate(st, q, mi, md, fail) ==
  LET hits == { r \in View(st, q) : Match(r, mi, md, "pk") } IN
  IF ~Usable(st, q) THEN [st |-> st, num |-> 0, err |-> ErrTxDone]
  ELSE IF fail THEN [st |-> st, num |-> 0, err |-> DriverErr]
  ELSE IF hits = {} THEN [st |-> st, num |-> 0, err |-> Nil]
  ELSE LET old == CHOOSE x \in hits : TRUE
           new == [old EXCEPT !.key = md.key]
       IN
       IF \E r \in Busy(st) \ {old} : r.t = mi /\ r.key = md.key
       THEN [st |-> st, num |-> 0, err |-> ErrDup]
       ELSE [st |-> AddRow(DropRow(st, q, old), q, new), num |-> 1, err |-> Nil]

\* DbBaser.Delete(q, mi, ind, tz, cols)
DbDelete(st, q, mi, md, fail) ==
  LET hits == { r \in View(st, q) : Match(r, mi, md, "pk") } IN
  IF ~Usable(st, q) THEN [st |-> st, num |-> 0, err |-> ErrTxDone]
  ELSE IF fail THEN [st |-> st, num |-> 0, err |-> DriverErr]
  ELSE IF hits = {} THEN [st |-> st, num |-> 0, err |-> Nil]
  ELSE [st |-> DropRow(st, q, CHOOSE x \in hits : TRUE), num |-> 1, err |-> Nil]

\* DbBaser.InsertOrUpdate(q, mi, ind, alias, args...): native upsert
DbInsertOrUpdate(st, q, mi, md, fail) ==
  LET hits == { r \in View(st, q) : Match(r, mi, md, "pk") } IN
  IF hits = {} \/ ~Usable(st, q) \/ fail THEN DbInsert(st, q, mi, md, fail)
  ELSE LET u == DbUpdate(st, q, mi, md, fail) IN
       [st |-> u.st, id |-> IF u.err = Nil THEN md.id ELSE 0, err |-> u.err]

\* txer.BeginTx(ctx, opts)
FreeTx(st) == { k \in TxIds : st.tx[k].st = "none" }
BeginTx(st, fail) ==
  IF fail THEN [st |-> st, tx |-> 0, err |-> DriverErr]
  ELSE LET k == CHOOSE x \in FreeTx(st) : \A y \in FreeTx(st) : x <= y IN
       [st |-> [st EXCEPT !.tx[k].st = "open"], tx |-> k, err |-> Nil]

\* txEnder.Commit() / txEnder.Rollback(): the first call ends the
\* transaction whether or not the driver reports a failure.
TxCommit(st, q, fail) ==
  IF ~Usable(st, q) \/ q = Pool THEN [st |-> st, err |-> ErrTxDone]
  ELSE IF fail THEN [st |-> [st EXCEPT !.tx[q].st = "aborted"], err |-> DriverErr]
  ELSE [st |-> [st EXCEPT !.rows = (@ \ st.tx[q].del) \cup st.tx[q].ins,
                          !.tx[q].st = "committed"],
        err |-> Nil]
TxRollback(st, q, fail) ==
  IF ~Usable(st, q) \/ q = Pool THEN [st |-> st, err |-> ErrTxDone]
  ELSE [st |-> [st EXCEPT !.tx[q].st = "aborted"],
        err |-> IF fail THEN DriverErr ELSE Nil]

\* ------------------------------------------------------------- ormBase
\* A session is [db |-> executor]: ormBase.db (the alias is the same for
\* every session of the run).
Call(q, stmt) == [q |-> q, stmt |-> stmt]

NoQs == [made |-> FALSE, mi |-> "", lim |-> 0, off |-> 0, depth |-> 0, order |-> ""]
newQuerySet(mi) == [NoQs EXCEPT !.made = TRUE, !.mi = mi]

\* What a session entry point hands back: the store afterwards, the caller's
\* record afterwards, the numeric result, the error, ReadOrCreate's created
\* flag, whether the call panicked, the executor calls it made in order,
\* the QuerySet it built, the records of the sequence it was given, and how
\* many related rows it stored in the relation field (-1: field untouched).
Res(st, md, ret, err, created, calls) ==
  [st |-> st, md |-> md, ret |-> ret, err |-> err, created |-> created,
   panic |-> FALSE, calls |-> calls, qs |-> NoQs, mds |-> <<>>, loaded |-> -1]
Panicked(st, md, calls) ==
  [st |-> st, md |-> md, ret |-> 0, err |-> Nil, created |-> FALSE,
   panic |-> TRUE, calls |-> calls, qs |-> NoQs, mds |-> <<>>, loaded |-> -1]

\* (mutant) the registry is not consulted
getMiIndAny(md, needPtr) ==
  IF needPtr /\ ~md.byPtr THEN [panic |-> TRUE, mi |-> md.type]
  ELSE [panic |-> FALSE, mi |-> md.type]

\* ormBase.getMiInd
getMiInd(md, needPtr) ==
  IF needPtr /\ ~md.byPtr THEN [panic |-> TRUE, mi |-> md.type]
  ELSE IF md.type \in modelCache THEN [panic |-> FALSE, mi |-> md.type]
  ELSE [panic |-> TRUE, mi |-> md.type]

\* (mutant) the identity is not written back
setPkSkips(mi, md, id) == md

\* ormBase.setPk; identities are non-negative, so uint64(id) and id agree
setPk(mi, md, id) ==
  IF pkAuto(mi) THEN [md EXCEPT !.id = id] ELSE md

\* ormBase.ReadWithCtx / ReadForUpdateWithCtx
ReadWithCtx(st, o, md, col, fail) ==
  LET g == getMiInd(md, TRUE) IN
  IF g.panic THEN Panicked(st, md, <<>>)
  ELSE LET r == DbRead(st, o.db, g.mi, md, col, fail) IN
       Res(st, r.md, 0, r.err, FALSE, <<Call(o.db, "Read")>>)

ReadForUpdateWithCtx(st, o, md, col, fail) ==
  LET g == getMiInd(md, TRUE) IN
  IF g.panic THEN Panicked(st, md, <<>>)
  ELSE LET r == DbRead(st, o.db, g.mi, md, col, fail) IN
       Res(st, r.md, 0, r.err, FALSE, <<Call(o.db, "ReadForUpdate")>>)

\* ormBase.InsertWithCtx
InsertWithCtx(st, o, md, fail) ==
  LET g == getMiInd(md, TRUE) IN
  IF g.panic THEN Panicked(st, md, <<>>)
  ELSE LET r == DbInsert(st, o.db, g.mi, md, fail) IN
       IF r.err # Nil
       THEN Res(r.st, md, r.id, r.err, FALSE, <<Call(o.db, "Insert")>>)
       ELSE Res(r.st, setPk(g.mi, md, r.id), r.id, Nil, FALSE, <<Call(o.db, "Insert")>>)

\* vid.Interface() of a relational primary key: the related record
Pointee(md) ==
  [type |-> relModelInfo(md.type), byPtr |-> TRUE, id |-> md.id, key |-> 0, rel |-> FALSE]

\* ormBase.ReadOrCreateWithCtx.  fails: the positions, among the executor
\* calls of this operation, at which the driver fails; n: calls made so far.
RECURSIVE ReadOrCreateWithCtx(_, _, _, _, _, _)
\* lines 153-168: what follows the read
rocAfterRead(st, o, mi, md, err, fails, n) ==
  IF err = ErrNoRows
  THEN LET i == InsertWithCtx(st, o, md, (n + 1) \in fails) IN
       [i EXCEPT !.created = (i.err = Nil /\ ~i.panic)]
  ELSE IF pkPositive(mi) THEN Res(st, md, md.id, err, FALSE, <<>>)
  ELSE IF pkRel(mi)
       THEN IF ~md.rel THEN Panicked(st, md, <<>>)
            ELSE LET sub == ReadOrCreateWithCtx(st, o, Pointee(md), "pk", fails, n) IN
                 [sub EXCEPT !.md = [md EXCEPT !.id = sub.md.id]]
  ELSE Res(st, md, md.id, err, FALSE, <<>>)

ReadOrCreateWithCtx(st, o, md, col, fails, n) ==
  LET g == getMiInd(md, TRUE) IN
  IF g.panic THEN Panicked(st, md, <<>>)
  ELSE LET rd == DbRead(st, o.db, g.mi, md, col, (n + 1) \in fails)
           rest == rocAfterRead(st, o, g.mi, rd.md, rd.err, fails, n + 1)
       IN [rest EXCEPT !.calls = <<Call(o.db, "Read")>> \o @]

\* ormBase.InsertOrUpdateWithCtx
InsertOrUpdateWithCtx(st, o, md, fail) ==
  LET g == getMiInd(md, TRUE) IN
  IF g.panic THEN Panicked(st, md, <<>>)
  ELSE LET r == DbInsertOrUpdate(st, o.db, g.mi, md, fail) IN
       IF r.err # Nil
       THEN Res(r.st, md, r.id, r.err, FALSE, <<Call(o.db, "InsertOrUpdate")>>)
       ELSE Res(r.st, setPk(g.mi, md, r.id), r.id, Nil, FALSE,
                <<Call(o.db, "InsertOrUpdate")>>)

\* ormBase.UpdateWithCtx
UpdateWithCtx(st, o, md, fail) ==
  LET g == getMiInd(md, TRUE) IN
  IF g.panic THEN Panicked(st, md, <<>>)
  ELSE LET r == DbUpdate(st, o.db, g.mi, md, fail) IN
       Res(r.st, md, r.num, r.err, FALSE, <<Call(o.db, "Update")>>)

\* (mutant) the identity is reset whatever the number of deleted rows
DeleteResetsAlways(st, o, md, fail) ==
  LET g == getMiInd(md, TRUE) IN
  IF g.panic THEN Panicked(st, md, <<>>)
  ELSE LET r == DbDelete(st, o.db, g.mi, md, fail) IN
       IF r.err # Nil THEN Res(r.st, md, r.num, r.err, FALSE, <<Call(o.db, "Delete")>>)
       ELSE Res(r.st, setPk(g.mi, md, 0), r.num, Nil, FALSE, <<Call(o.db, "Delete")>>)

\* ormBase.DeleteWithCtx
DeleteWithCtx(st, o, md, fail) ==
  LET g == getMiInd(md, TRUE) IN
  IF g.panic THEN Panicked(st, md, <<>>)
  ELSE LET r == DbDelete(st, o.db, g.mi, md, fail) IN
       IF r.err # Nil THEN Res(r.st, md, r.num, r.err, FALSE, <<Call(o.db, "Delete")>>)
       ELSE Res(r.st, IF r.num > 0 THEN setPk(g.mi, md, 0) ELSE md, r.num, Nil, FALSE,
                <<Call(o.db, "Delete")>>)

\* A sequence argument: "slice" (a slice, or a pointer to an array: elements
\* addressable), "array" (an array passed by value) or "other" (anything
\* that is not an array or slice, nil included).  The elements of a Go
\* sequence share one element type.
NoMd == [type |-> "none", byPtr |-> FALSE, id |-> 0, key |-> 0, rel |-> FALSE]
Addressable(mds, e) == mds.kind = "slice" \/ e.byPtr

RECURSIVE insertBatch(_, _, _, _, _, _)
\* one multi-row statement for elems[i..j]
insertBatch(st, q, mi, elems, i, j) ==
  IF i > j THEN [st |-> st, err |-> Nil]
  ELSE LET r == DbInsert(st, q, mi, elems[i], FALSE) IN
       IF r.err # Nil THEN [st |-> st, err |-> r.err]
       ELSE insertBatch(r.st, q, mi, elems, i + 1, j)

RECURSIVE DbInsertMulti(_, _, _, _, _, _, _, _, _)
\* DbBaser.InsertMulti(q, mi, sind, bulk, tz): statements of `bulk` rows;
\* b is the number of the statement, i its first row
DbInsertMulti(st, q, mi, elems, bulk, i, b, fails, calls) ==
  IF i > Len(elems) THEN [st |-> st, cnt |-> i - 1, err |-> Nil, calls |-> calls]
  ELSE LET j == IF i + bulk - 1 < Len(elems) THEN i + bulk - 1 ELSE Len(elems)
           c == Append(calls, Call(q, "InsertMulti"))
           r == IF ~Usable(st, q) THEN [st |-> st, err |-> ErrTxDone]
                ELSE IF b \in fails THEN [st |-> st, err |-> DriverErr]
                ELSE insertBatch(st, q, mi, elems, i, j)
       IN
       IF r.err # Nil THEN [st |-> st, cnt |-> i - 1, err |-> r.err, calls |-> c]
       ELSE DbInsertMulti(r.st, q, mi, elems, bulk, j + 1, b + 1, fails, c)

RECURSIVE insertEach(_, _, _, _, _, _, _)
\* ormBase.InsertMultiWithCtx, the loop of lines 217-228 from element i on
insertEach(st, o, mds, i, cnt, fails, calls) ==
  IF i > Len(mds.elems)
  THEN [Res(st, NoMd, cnt, Nil, FALSE, calls) EXCEPT !.mds = mds.elems]
  ELSE LET e == mds.elems[i]
           g == getMiInd(e, FALSE)
       IN
       IF g.panic THEN [Panicked(st, NoMd, calls) EXCEPT !.mds = mds.elems]
       ELSE LET r == DbInsert(st, o.db, g.mi, e, i \in fails)
                c == Append(calls, Call(o.db, "Insert"))
            IN
            IF r.err # Nil
            THEN [Res(r.st, NoMd, cnt, r.err, FALSE, c) EXCEPT !.mds = mds.elems]
            ELSE IF pkAuto(g.mi) /\ ~Addressable(mds, e)
                 \* reflect: Set on an element that is not addressable
                 THEN [Panicked(r.st, NoMd, c) EXCEPT !.mds = mds.elems]
            ELSE insertEach(r.st, o, [mds EXCEPT !.elems[i] = setPk(g.mi, e, r.id)],
                            i + 1, cnt + 1, fails, c)

\* (mutant) a bad argument is reported without an error
InsertMultiNoErr(st, o, bulk, mds, fails) ==
  IF mds.kind = "other" \/ Len(mds.elems) = 0
  THEN [Res(st, NoMd, 0, Nil, FALSE, <<>>) EXCEPT !.mds = mds.elems]
  ELSE IF bulk <= 1 THEN insertEach(st, o, mds, 1, 0, fails, <<>>)
  ELSE LET g == getMiInd(mds.elems[1], FALSE) IN
       IF g.panic THEN [Panicked(st, NoMd, <<>>) EXCEPT !.mds = mds.elems]
       ELSE LET r == DbInsertMulti(st, o.db, g.mi, mds.elems, bulk, 1, 1, fails, <<>>) IN
            [Res(r.st, NoMd, r.cnt, r.err, FALSE, r.calls) EXCEPT !.mds = mds.elems]

\* ormBase.InsertMultiWithCtx
InsertMultiWithCtx(st, o, bulk, mds, fails) ==
  IF mds.kind = "other" \/ Len(mds.elems) = 0
  THEN [Res(st, NoMd, 0, ErrArgs, FALSE, <<>>) EXCEPT !.mds = mds.elems]
  ELSE IF bulk <= 1 THEN insertEach(st, o, mds, 1, 0, fails, <<>>)
  ELSE LET g == getMiInd(mds.elems[1], FALSE) IN
       IF g.panic THEN [Panicked(st, NoMd, <<>>) EXCEPT !.mds = mds.elems]
       ELSE LET r == DbInsertMulti(st, o.db, g.mi, mds.elems, bulk, 1, 1, fails, <<>>) IN
            [Res(r.st, NoMd, r.cnt, r.err, FALSE, r.calls) EXCEPT !.mds = mds.elems]

\* ---------------------------------------------------- fields, relations
RelForeignKey == "RelForeignKey"
RelOneToOne == "RelOneToOne"
RelManyToMany == "RelManyToMany"
RelReverseOne == "RelReverseOne"
RelReverseMany == "RelReverseMany"

NoField == [ok |-> FALSE, fieldType |-> "", inModel |-> FALSE, rmi |-> "", through |-> FALSE]
Fld(ft, rmi, through) ==
  [ok |-> TRUE, fieldType |-> ft, inModel |-> TRUE, rmi |-> rmi, through |-> through]
FieldNames == {"Profile", "Tags", "Owned", "Name", "Users", "Owner", "User", "Nope"}
\* mi.fields.GetByAny(name)
GetByAny(mi, name) ==
  CASE mi = "User" /\ name = "Profile" -> Fld(RelReverseOne, "Profile", FALSE)
    [] mi = "User" /\ name = "Tags" -> Fld(RelManyToMany, "Tag", FALSE)
    [] mi = "User" /\ name = "Owned" -> Fld(RelReverseMany, "Tag", FALSE)
    [] mi = "User" /\ name = "Name" -> Fld("Field", "", FALSE)
    [] mi = "Tag" /\ name = "Users" -> Fld(RelReverseMany, "User", TRUE)
    [] mi = "Tag" /\ name = "Owner" -> Fld(RelForeignKey, "User", FALSE)
    [] mi = "Profile" /\ name = "User" -> Fld(RelOneToOne, "User", FALSE)
    [] OTHER -> NoField

\* getExistPk: the record carries a primary key
getExistPk(mi, md) == IF pkRel(mi) THEN md.rel ELSE md.id > 0

\* ormBase.QueryM2MWithCtx
QueryM2MWithCtx(st, o, md, name) ==
  LET g == getMiInd(md, TRUE)
      fi == GetByAny(g.mi, name)
  IN
  IF g.panic \/ ~fi.ok THEN Panicked(st, md, <<>>)
  ELSE IF fi.fieldType = RelManyToMany \/ (fi.fieldType = RelReverseMany /\ fi.through)
       THEN [Res(st, md, 0, Nil, FALSE, <<>>) EXCEPT !.qs = newQuerySet("through")]
  ELSE Panicked(st, md, <<>>)

\* ormBase.queryRelated with getRelQs / getReverseQs
queryRelated(st, o, md, name) ==
  LET g == getMiInd(md, TRUE)
      fi == GetByAny(g.mi, name)
      qs == IF ~fi.inModel THEN NoQs
            ELSE IF fi.fieldType \in {RelOneToOne, RelForeignKey, RelManyToMany,
                                      RelReverseOne, RelReverseMany}
                 THEN newQuerySet(fi.rmi)
            ELSE NoQs
  IN
  IF g.panic \/ ~fi.ok THEN [panic |-> TRUE, fi |-> NoField, qs |-> NoQs]
  ELSE IF ~getExistPk(g.mi, md) THEN [panic |-> TRUE, fi |-> fi, qs |-> NoQs]
  ELSE IF ~qs.made THEN [panic |-> TRUE, fi |-> fi, qs |-> NoQs]
  ELSE [panic |-> FALSE, fi |-> fi, qs |-> qs]

\* ormBase.QueryRelatedWithCtx
QueryRelatedWithCtx(st, o, md, name) ==
  LET r == queryRelated(st, o, md, name) IN
  IF r.panic THEN Panicked(st, md, <<>>)
  ELSE [Res(st, md, 0, Nil, FALSE, <<>>) EXCEPT !.qs = r.qs]

\* table-name strategy (snake case) and modelCache.get(table)
TableArgs == {"user", "User", "tag", "profile", "ghost"}
snakeString(name) == IF name = "User" THEN "user" ELSE name
byTable(table) ==
  CASE table = "user" -> "User" [] table = "tag" -> "Tag"
    [] table = "profile" -> "Profile" [] OTHER -> ""

\* ormBase.QueryTableWithCtx: arg is a table name (isName) or a model type
QueryTableWithCtx(st, o, isName, arg) ==
  LET mi == IF isName THEN byTable(snakeString(arg))
            ELSE IF arg \in modelCache THEN arg ELSE ""
  IN
  IF mi = "" THEN Panicked(st, NoMd, <<>>)
  ELSE [Res(st, NoMd, 0, Nil, FALSE, <<>>) EXCEPT !.qs = newQuerySet(mi)]

\* LoadRelated's variadic args: n of them are given, in the order depth
\* (a bool or an int), limit, offset, order
LoadArgs ==
  { a \in [n : 0..4, d : {"none", "true", "false", "int"}, lim : {0, 2},
           off : {0, 1}, order : {"", "-Id"}] :
      /\ (a.n < 1) <=> (a.d = "none")
      /\ (a.n < 2) => a.lim = 0
      /\ (a.n < 3) => a.off = 0
      /\ (a.n < 4) => a.order = "" }

\* querySet.One / querySet.All over m rows that match the relation
\* condition in the session's executor
qsOne(st, o, qs, m, fail) ==
  IF ~Usable(st, o.db) THEN ErrTxDone
  ELSE IF fail THEN DriverErr
  ELSE IF m = 0 THEN ErrNoRows
  ELSE IF m > 1 THEN "ErrMultiRows"
  ELSE Nil
qsAll(st, o, qs, m, fail) ==
  LET avail == IF m > qs.off THEN m - qs.off ELSE 0
      n == IF qs.lim > 0 /\ qs.lim < avail THEN qs.lim ELSE avail
  IN
  IF ~Usable(st, o.db) THEN [nums |-> 0, err |-> ErrTxDone]
  ELSE IF fail THEN [nums |-> 0, err |-> DriverErr]
  ELSE [nums |-> n, err |-> Nil]

\* (mutant) the caller's limit and offset are kept for every relation
LoadRelatedKeepsArgs(st, o, md, name, args, m, fail) ==
  LET r == queryRelated(st, o, md, name)
      single == r.fi.fieldType \in {RelOneToOne, RelForeignKey, RelReverseOne}
      relDepth == IF args.d = "true" THEN DefaultRelsDepth
                  ELSE IF args.d = "int" THEN 1 ELSE 0
      qs == [r.qs EXCEPT !.lim = args.lim, !.off = args.off, !.depth = relDepth,
                         !.order = args.order]
  IN
  IF r.panic THEN Panicked(st, md, <<>>)
  ELSE IF single
       THEN LET err == qsOne(st, o, qs, m, fail) IN
            [Res(st, md, IF err = Nil THEN 1 ELSE 0, err, FALSE, <<Call(o.db, "One")>>)
               EXCEPT !.qs = qs, !.loaded = IF err = Nil THEN 1 ELSE -1]
  ELSE LET a == qsAll(st, o, qs, m, fail) IN
       [Res(st, md, a.nums, a.err, FALSE, <<Call(o.db, "All")>>)
          EXCEPT !.qs = qs, !.loaded = IF a.err = Nil THEN a.nums ELSE -1]

\* ormBase.LoadRelatedWithCtx
LoadRelatedWithCtx(st, o, md, name, args, m, fail) ==
  LET r == queryRelated(st, o, md, name)
      single == r.fi.fieldType \in {RelOneToOne, RelForeignKey, RelReverseOne}
      relDepth == IF args.d = "true" THEN DefaultRelsDepth
                  ELSE IF args.d = "int" THEN 1 ELSE 0
      limit == IF single THEN 1 ELSE args.lim
      offset == IF single THEN 0 ELSE args.off
      qs == [r.qs EXCEPT !.lim = limit, !.off = offset, !.depth = relDepth,
                         !.order = args.order]
  IN
  IF r.panic THEN Panicked(st, md, <<>>)
  ELSE IF single
       THEN LET err == qsOne(st, o, qs, m, fail) IN
            [Res(st, md, IF err = Nil THEN 1 ELSE 0, err, FALSE, <<Call(o.db, "One")>>)
               EXCEPT !.qs = qs, !.loaded = IF err = Nil THEN 1 ELSE -1]
  ELSE LET a == qsAll(st, o, qs, m, fail) IN
       [Res(st, md, a.nums, a.err, FALSE, <<Call(o.db, "All")>>)
          EXCEPT !.qs = qs, !.loaded = IF a.err = Nil THEN a.nums ELSE -1]

\* ----------------------------------------------------------- orm, txOrm
\* the registered aliases and drivers
dataBaseCache == {"default"}
drivers == {"mysql"}
ErrDriver == "driver name have not registered"

\* the result r of a constructor together with the session o it returns
WithOrm(r, o) == [x \in DOMAIN r \cup {"o"} |-> IF x = "o" THEN o ELSE r[x]]

\* NewOrmUsingDB(aliasName): the new session, or a panic
NewOrmUsingDB(st, aliasName) ==
  IF aliasName \in dataBaseCache
  THEN WithOrm(Res(st, NoMd, 0, Nil, FALSE, <<>>), [db |-> Pool])
  ELSE WithOrm(Panicked(st, NoMd, <<>>), [db |-> -1])

\* NewOrmWithDB(driverName, aliasName, db): the new session, or an error
NewOrmWithDB(st, driverName) ==
  IF driverName \in drivers
  THEN WithOrm(Res(st, NoMd, 0, Nil, FALSE, <<>>), [db |-> Pool])
  ELSE WithOrm(Res(st, NoMd, 0, ErrDriver, FALSE, <<>>), [db |-> -1])

\* (mutant) the TxOrmer keeps the executor of the Ormer it came from
BeginKeepsPool(st, o, fail) ==
  LET b == BeginTx(st, fail) IN
  IF b.err # Nil THEN [st |-> b.st, txOrm |-> [db |-> -1], err |-> b.err, o |-> o]
  ELSE [st |-> b.st, txOrm |-> [db |-> o.db], err |-> Nil, o |-> o]

\* orm.BeginWithCtxAndOpts: the TxOrmer it returns wraps the new
\* transaction; the receiver is left as it was
BeginWithCtxAndOpts(st, o, fail) ==
  LET b == BeginTx(st, fail) IN
  IF b.err # Nil THEN [st |-> b.st, txOrm |-> [db |-> -1], err |-> b.err, o |-> o]
  ELSE [st |-> b.st, txOrm |-> [db |-> b.tx], err |-> Nil, o |-> o]

\* (mutant) Commit drops the error of the executor
txOrmCommitQuiet(st, t, fail) == [TxCommit(st, t.db, fail) EXCEPT !.err = Nil]

\* txOrm.Commit / txOrm.Rollback
txOrmCommit(st, t, fail) == TxCommit(st, t.db, fail)
txOrmRollback(st, t, fail) == TxRollback(st, t.db, fail)

\* (mutant) a failed Begin is tried once more
doTxBeginRetry(st, o, fail) ==
  LET b == BeginWithCtxAndOpts(st, o, fail)
      c == BeginWithCtxAndOpts(b.st, b.o, FALSE)
  IN
  IF b.err # Nil
  THEN [st |-> c.st, txOrm |-> c.txOrm, err |-> c.err, o |-> c.o,
        begins |-> <<b.err, c.err>>]
  ELSE [st |-> b.st, txOrm |-> b.txOrm, err |-> Nil, o |-> b.o, begins |-> <<Nil>>]

\* orm.DoTxWithCtxAndOpts, lines 552-555: Begin, whose error ends DoTx;
\* begins: the results of the calls of Begin it made
doTxBegin(st, o, fail) ==
  LET b == BeginWithCtxAndOpts(st, o, fail) IN
  [st |-> b.st, txOrm |-> b.txOrm, err |-> b.err, o |-> b.o, begins |-> <<b.err>>]

\* (mutant) the deferred function rolls back on a panic only
doTxDeferredPanicOnly(st, t, panicked, err, fail) ==
  IF panicked
  THEN LET e == txOrmRollback(st, t, fail) IN
       [st |-> e.st, call |-> "Rollback", e |-> e.err,
        logs |-> IF e.err # Nil THEN <<"rollback transaction failed">> ELSE <<>>]
  ELSE LET e == txOrmCommit(st, t, fail) IN
       [st |-> e.st, call |-> "Commit", e |-> e.err,
        logs |-> IF e.err # Nil THEN <<"commit transaction failed">> ELSE <<>>]

\* (mutant) the deferred function never commits
doTxDeferredAlwaysRollback(st, t, panicked, err, fail) ==
  LET e == txOrmRollback(st, t, fail) IN
  [st |-> e.st, call |-> "Rollback", e |-> e.err,
   logs |-> IF e.err # Nil THEN <<"rollback transaction failed">> ELSE <<>>]

\* orm.DoTxWithCtxAndOpts, the deferred function (lines 557-569): which
\* terminal call it makes, the store afterwards and the error it logs
doTxDeferred(st, t, panicked, err, fail) ==
  IF panicked \/ err # Nil
  THEN LET e == txOrmRollback(st, t, fail) IN
       [st |-> e.st, call |-> "Rollback", e |-> e.err,
        logs |-> IF e.err # Nil THEN <<"rollback transaction failed">> ELSE <<>>]
  ELSE LET e == txOrmCommit(st, t, fail) IN
       [st |-> e.st, call |-> "Commit", e |-> e.err,
        logs |-> IF e.err # Nil THEN <<"commit transaction failed">> ELSE <<>>]

\* (mutant) the task's error is not kept in err
doTxTaskErrLost(outcome) ==
  IF outcome = "panic" THEN [err |-> Nil, panicked |-> TRUE]
  ELSE [err |-> Nil, panicked |-> FALSE]

\* orm.DoTxWithCtxAndOpts, lines 572-573: the task returns outcome (Nil or
\* an error) or panics; a panic skips line 573
doTxTask(outcome) ==
  IF outcome = "panic" THEN [err |-> Nil, panicked |-> TRUE]
  ELSE [err |-> outcome, panicked |-> FALSE]

\* (mutant) the panic is recovered and handed back as an error value
doTxReturnRecovered(err, panicked) ==
  IF panicked THEN [ret |-> "recovered", unwound |-> FALSE]
  ELSE [ret |-> err, unwound |-> FALSE]

\* orm.DoTxWithCtxAndOpts, line 574 after the deferred function: what the
\* caller receives, a return value or the panic that keeps unwinding
doTxReturn(err, panicked) ==
  IF panicked THEN [ret |-> Nil, unwound |-> TRUE]
  ELSE [ret |-> err, unwound |-> FALSE]

\* ================================================================ state
VARIABLES
  store,    \* the database and its transactions
  orm,      \* the plain Ormer: [db |-> executor]
  txOrms,   \* the TxOrmers handed out so far: handle -> [db |-> executor]
  dotx,     \* the DoTx call in progress or last finished
  roc,      \* concurrent ReadOrCreate callers
  last,     \* the session operation that finished last: inputs and results
  nops      \* operations so far

vars == <<store, orm, txOrms, dotx, roc, last, nops>>

NoOrm == [db |-> -1]
Live == {0} \cup { k \in TxIds : txOrms[k].db # -1 }
Sess(s) == IF s = 0 THEN orm ELSE txOrms[s]
AllRows(st) == st.rows \cup UNION { st.tx[k].ins : k \in TxIds }

NoArgs == [n |-> 0, d |-> "none", lim |-> 0, off |-> 0, order |-> ""]
NoMds == [kind |-> "other", elems |-> <<>>]
\* context.Context as an entry point receives it: context.Background(), a
\* cancelled context, a context past its deadline
Background == "background"
Ctxs == {Background, "canceled", "deadline"}
NoIn == [md |-> NoMd, mds |-> NoMds, bulk |-> 0, name |-> "", col |-> "",
         args |-> NoArgs, m |-> 0, ctx |-> Background, fails |-> {}]
InMd(md) == [NoIn EXCEPT !.md = md]
InCtx(ctx, in) == [in EXCEPT !.ctx = ctx]
Out(r) ==
  [md |-> r.md, ret |-> r.ret, err |-> r.err, created |-> r.created,
   panic |-> r.panic, calls |-> r.calls, qs |-> r.qs, mds |-> r.mds,
   loaded |-> r.loaded]
NoOut == Out(Res(Store0, NoMd, 0, Nil, FALSE, <<>>))

\* The DoTx call: where it is (pc), the handle of _txOrm (h), the variables
\* err and panicked, the terminal calls DoTx itself made (ended), the error
\* of that call (e), what was logged, what the caller received (ret,
\* unwound); and about the task: whether it was invoked, how it ended
\* (outcome: Nil, the error it returned, or "panic"), the rows it inserted
\* through the handle, whether it ended the transaction itself; and the
\* results of the calls of Begin that DoTx made (begins).
DoTx0 ==
  [pc |-> "idle", h |-> 0, err |-> Nil, panicked |-> FALSE, ended |-> <<>>,
   e |-> Nil, logs |-> <<>>, ret |-> Nil, unwound |-> FALSE,
   taskRan |-> FALSE, outcome |-> Nil, ins |-> {}, taskEnded |-> FALSE,
   begins |-> <<>>]

Roc0 ==
  [pc |-> "idle", md0 |-> NoMd, col |-> "", mi |-> "", md |-> NoMd, rerr |-> Nil,
   out |-> NoOut]
Procs == {1, 2}

Start(st) ==
  /\ store = st
  /\ orm = [db |-> Pool]
  /\ txOrms = [k \in TxIds |-> NoOrm]
  /\ dotx = DoTx0
  /\ roc = [p \in Procs |-> Roc0]
  /\ last = [op |-> "none", s |-> 0, in |-> NoIn, out |-> NoOut]
  /\ nops = 0

\* a fresh database
Init == Start(Store0)

\* ---------------------------------------------------------- input sets
FailAt(n) == {{}} \cup { {k} : k \in 1..n }
Seqs(M) ==
  { q \in UNION { [1..n -> M] : n \in 0..MaxLen } :
      \A i \in DOMAIN q : q[i].type = q[1].type /\ q[i].byPtr = q[1].byPtr }
MdsArgs(M) ==
  { a \in [kind : {"slice", "array", "other"}, elems : Seqs(M)] :
      a.kind = "other" => a.elems = <<>> }

\* A scope fixes what one kind of run draws its inputs from: the sessions
\* (S), the records (M), the records that relation operations start from
\* (R), the elements of InsertMulti's sequences (E) and their kinds (K), the
\* batch sizes (B), the field names handed to the relation operations (F),
\* the contexts (C) and the number of operations (N).
UserMds ==
  { md \in Mds : /\ md.type = "User" /\ md.byPtr
                 /\ md.id \in {0, MaxId}
                 /\ md.key = md.id % (MaxKey + 1) }
GhostMd == [type |-> "Ghost", byPtr |-> TRUE, id |-> 0, key |-> 0, rel |-> FALSE]
TxScope ==
  [S |-> Live, M |-> UserMds, R |-> { md \in UserMds : md.id = MaxId },
   E |-> { md \in UserMds : md.id = 0 } \cup {GhostMd}, K |-> {"slice", "other"},
   B |-> {1, MaxLen}, F |-> {"Profile", "Nope"}, C |-> {Background},
   N |-> MaxTxOps]
DoTxScope == [TxScope EXCEPT !.N = MaxTaskOps]
CtxScope ==
  [TxScope EXCEPT !.S = {0}, !.M = UserMds \cup {GhostMd}, !.C = Ctxs, !.N = 1]
CrudMds ==
  { md \in Mds :
      /\ md.byPtr \/ (md.type = "User" /\ md.id = 0 /\ md.key = 0)
      /\ md.type = "Ghost" => (md.id = 0 /\ md.key = 0)
      /\ md.type = "Tag" => md.id = MaxId }
CrudScope ==
  [S |-> {0}, M |-> CrudMds, R |-> { md \in CrudMds : md.key = 0 },
   E |-> { md \in Mds : /\ md.key = 0 \/ (md.type = "User" /\ md.byPtr)
                        /\ md.type = "User" => md.id = 0
                        /\ md.type # "User" => (md.byPtr /\ md.id = MaxId)
                        /\ md.type # "Tag" },
   K |-> {"slice", "array", "other"}, B |-> -1..MaxLen, F |-> FieldNames,
   C |-> {Background}, N |-> 1]

\* The handle of a running DoTx is used by its task only, and the task has
\* returned once the deferred function runs.
InEpilogue(s) == s # 0 /\ s = dotx.h /\ dotx.pc \in {"defer", "return"}

\* a session operation op on session s with inputs in and result r
Apply(D, op, s, in, r) ==
  /\ nops < D.N
  /\ ~InEpilogue(s)
  /\ store' = r.st
  /\ last' = [op |-> op, s |-> s, in |-> in, out |-> Out(r)]
  /\ nops' = nops + 1
  /\ dotx' = IF s # 0 /\ s = dotx.h /\ dotx.pc = "task"
             THEN [dotx EXCEPT !.ins = @ \cup (AllRows(r.st) \ AllRows(store))]
             ELSE dotx
  /\ UNCHANGED <<orm, txOrms, roc>>

\* The eight entry points that take a context.  ctx is their first argument;
\* none of them hands it on to DbBaser (lines 133, 142, 152, 177, 220, 231,
\* 242, 259, 269), so the operators they apply do not take it.
Read(D) ==
  /\ nops < D.N
  /\ \E s \in D.S \cap Live, ctx \in D.C, md \in D.M, col \in {"pk", "key"}, fail \in BOOLEAN :
    Apply(D, "Read", s, InCtx(ctx, [InMd(md) EXCEPT !.col = col]),
          ReadWithCtx(store, Sess(s), md, col, fail))

ReadForUpdate(D) ==
  /\ nops < D.N
  /\ \E s \in D.S \cap Live, ctx \in D.C, md \in D.M, col \in {"pk", "key"}, fail \in BOOLEAN :
    Apply(D, "ReadForUpdate", s, InCtx(ctx, [InMd(md) EXCEPT !.col = col]),
          ReadForUpdateWithCtx(store, Sess(s), md, col, fail))

ReadOrCreate(D) ==
  /\ nops < D.N
  /\ \E s \in D.S \cap Live, ctx \in D.C, md \in D.M, col \in {"pk", "key"}, fails \in FailAt(3) :
    Apply(D, "ReadOrCreate", s,
          InCtx(ctx, [InMd(md) EXCEPT !.col = col, !.fails = fails]),
          ReadOrCreateWithCtx(store, Sess(s), md, col, fails, 0))

Insert(D) ==
  /\ nops < D.N
  /\ \E s \in D.S \cap Live, ctx \in D.C, md \in D.M, fail \in BOOLEAN :
    Apply(D, "Insert", s, InCtx(ctx, InMd(md)), InsertWithCtx(store, Sess(s), md, fail))

InsertMulti(D) ==
  /\ nops < D.N
  /\ \E s \in D.S \cap Live, ctx \in D.C, bulk \in D.B,
     mds \in { a \in MdsArgs(D.E) : a.kind \in D.K } :
    \E fails \in FailAt(Len(mds.elems)) :
      Apply(D, "InsertMulti", s,
            InCtx(ctx, [NoIn EXCEPT !.mds = mds, !.bulk = bulk, !.fails = fails]),
            InsertMultiWithCtx(store, Sess(s), bulk, mds, fails))

InsertOrUpdate(D) ==
  /\ nops < D.N
  /\ \E s \in D.S \cap Live, ctx \in D.C, md \in D.M, fail \in BOOLEAN :
    Apply(D, "InsertOrUpdate", s, InCtx(ctx, InMd(md)),
          InsertOrUpdateWithCtx(store, Sess(s), md, fail))

Update(D) ==
  /\ nops < D.N
  /\ \E s \in D.S \cap Live, ctx \in D.C, md \in D.M, fail \in BOOLEAN :
    Apply(D, "Update", s, InCtx(ctx, InMd(md)), UpdateWithCtx(store, Sess(s), md, fail))

Delete(D) ==
  /\ nops < D.N
  /\ \E s \in D.S \cap Live, ctx \in D.C, md \in D.M, fail \in BOOLEAN :
    Apply(D, "Delete", s, InCtx(ctx, InMd(md)), DeleteWithCtx(store, Sess(s), md, fail))

QueryM2M(D) ==
  /\ nops < D.N
  /\ \E s \in D.S \cap Live, md \in D.R, name \in D.F :
    Apply(D, "QueryM2M", s, [InMd(md) EXCEPT !.name = name],
          QueryM2MWithCtx(store, Sess(s), md, name))

QueryRelated(D) ==
  /\ nops < D.N
  /\ \E s \in D.S \cap Live, md \in D.R, name \in D.F :
    Apply(D, "QueryRelated", s, [InMd(md) EXCEPT !.name = name],
          QueryRelatedWithCtx(store, Sess(s), md, name))

LoadRelated(D, A) ==
  /\ nops < D.N
  /\ \E s \in D.S \cap Live, md \in D.R, name \in D.F, args \in A,
     m \in 0..2, fail \in BOOLEAN :
    /\ fail => m = 0
    /\ Apply(D, "LoadRelated", s,
             [InMd(md) EXCEPT !.name = name, !.args = args, !.m = m],
             LoadRelatedWithCtx(store, Sess(s), md, name, args, m, fail))

QueryTable(D) ==
  /\ nops < D.N
  /\ \E s \in D.S \cap Live, isName \in BOOLEAN, arg \in TableArgs \cup Types :
    /\ isName => arg \in TableArgs
    /\ ~isName => arg \in Types
    /\ Apply(D, "QueryTable", s,
             [NoIn EXCEPT !.name = arg, !.col = IF isName THEN "table" ELSE "type"],
             QueryTableWithCtx(store, Sess(s), isName, arg))

\* NewOrmUsingDB / NewOrmWithDB called for one more session (the run keeps
\* working with the Ormer it has)
NewOrm(D) ==
  /\ nops < D.N
  /\ \E aliasName \in dataBaseCache \cup {"nope"} :
    Apply(D, "NewOrmUsingDB", 0, [NoIn EXCEPT !.name = aliasName],
          NewOrmUsingDB(store, aliasName))

NewOrmWith(D) ==
  /\ nops < D.N
  /\ \E driverName \in drivers \cup {"nope"} :
    Apply(D, "NewOrmWithDB", 0, [NoIn EXCEPT !.name = driverName],
          NewOrmWithDB(store, driverName))

\* the handle under which a TxOrmer returned now is kept
NewHandle == CHOOSE x \in FreeTx(store) : \A y \in FreeTx(store) : x <= y

\* orm.Begin / BeginWithCtx / BeginWithOpts
Begin ==
  \E fail \in BOOLEAN :
    LET b == BeginWithCtxAndOpts(store, orm, fail) IN
    /\ FreeTx(store) # {}
    /\ store' = b.st
    /\ orm' = b.o
    /\ txOrms' = IF b.err = Nil THEN [txOrms EXCEPT ![NewHandle] = b.txOrm] ELSE txOrms
    /\ last' = [op |-> "Begin", s |-> IF b.err = Nil THEN NewHandle ELSE 0, in |-> NoIn,
                out |-> [NoOut EXCEPT !.err = b.err]]
    /\ UNCHANGED <<dotx, roc, nops>>

\* txOrm.Commit / txOrm.Rollback called by the user of the handle
EndTx(op, s, r) ==
  /\ ~InEpilogue(s)
  /\ store' = r.st
  /\ last' = [op |-> op, s |-> s, in |-> NoIn,
              out |-> [NoOut EXCEPT !.err = r.err, !.calls = <<Call(txOrms[s].db, op)>>]]
  /\ dotx' = IF s = dotx.h /\ dotx.pc = "task" THEN [dotx EXCEPT !.taskEnded = TRUE]
             ELSE dotx
  /\ UNCHANGED <<orm, txOrms, roc, nops>>

Commit ==
  \E s \in Live \ {0}, fail \in BOOLEAN :
    EndTx("Commit", s, txOrmCommit(store, txOrms[s], fail))

Rollback ==
  \E s \in Live \ {0}, fail \in BOOLEAN :
    EndTx("Rollback", s, txOrmRollback(store, txOrms[s], fail))

\* orm.DoTx*: lines 552-556 and 571, up to the call of the task
\* (a run holds one call of DoTx)
DoTxBegin ==
  \E fail \in BOOLEAN :
    LET b == doTxBegin(store, orm, fail) IN
    /\ dotx.pc = "idle"
    /\ FreeTx(store) # {}
    /\ store' = b.st
    /\ orm' = b.o
    /\ txOrms' = IF b.err = Nil THEN [txOrms EXCEPT ![NewHandle] = b.txOrm] ELSE txOrms
    /\ dotx' = IF b.err = Nil
               THEN [DoTx0 EXCEPT !.pc = "task", !.h = NewHandle, !.panicked = TRUE,
                                  !.taskRan = TRUE, !.begins = b.begins]
               ELSE [DoTx0 EXCEPT !.pc = "done", !.ret = b.err, !.begins = b.begins]
    /\ last' = [op |-> "DoTxBegin", s |-> 0, in |-> NoIn,
                out |-> [NoOut EXCEPT !.err = b.err]]
    /\ UNCHANGED <<roc, nops>>

\* orm.DoTx*: the task returns or panics (lines 572-573)
DoTxTask ==
  \E outcome \in {Nil, "E1", "E2", "panic"} :
    LET t == doTxTask(outcome) IN
    /\ dotx.pc = "task"
    /\ dotx' = [dotx EXCEPT !.pc = "defer", !.outcome = outcome, !.err = t.err,
                            !.panicked = t.panicked]
    /\ UNCHANGED <<store, orm, txOrms, roc, last, nops>>

\* orm.DoTx*: the deferred function runs (lines 557-569)
DoTxDefer ==
  \E fail \in BOOLEAN :
    LET d == doTxDeferred(store, txOrms[dotx.h], dotx.panicked, dotx.err, fail) IN
    /\ dotx.pc = "defer"
    /\ store' = d.st
    /\ dotx' = [dotx EXCEPT !.pc = "return", !.ended = Append(@, d.call), !.e = d.e,
                            !.logs = @ \o d.logs]
    /\ UNCHANGED <<orm, txOrms, roc, last, nops>>

\* orm.DoTx*: the caller gets the result (line 574), or the panic
DoTxReturn ==
  LET r == doTxReturn(dotx.err, dotx.panicked) IN
  /\ dotx.pc = "return"
  /\ dotx' = [dotx EXCEPT !.pc = "done", !.ret = r.ret, !.unwound = r.unwound]
  /\ last' = [op |-> "DoTx", s |-> dotx.h, in |-> NoIn,
              out |-> [NoOut EXCEPT !.err = r.ret, !.panic = r.unwound]]
  /\ UNCHANGED <<store, orm, txOrms, roc, nops>>

\* ormBase.ReadOrCreateWithCtx run by concurrent callers, each on a plain
\* session of its own over the pool: first the read (lines 150-152) ...
RocRead(p) ==
  \E md \in CrudMds, col \in {"pk", "key"}, fail \in BOOLEAN :
    LET g == getMiInd(md, TRUE)
        rd == DbRead(store, orm.db, g.mi, md, col, fail)
    IN
    /\ roc[p].pc = "idle"
    /\ roc' = [roc EXCEPT ![p] =
                 IF g.panic
                 THEN [Roc0 EXCEPT !.pc = "done", !.md0 = md, !.col = col,
                                   !.out = Out(Panicked(store, md, <<>>))]
                 ELSE [Roc0 EXCEPT !.pc = "read", !.md0 = md, !.col = col, !.mi = g.mi,
                                   !.md = rd.md, !.rerr = rd.err]]
    /\ UNCHANGED <<store, orm, txOrms, dotx, last, nops>>

\* ... then what follows it (lines 153-168)
RocRest(p) ==
  \E fails \in FailAt(3) :
    LET r == rocAfterRead(store, orm, roc[p].mi, roc[p].md, roc[p].rerr, fails, 1) IN
    /\ roc[p].pc = "read"
    /\ store' = r.st
    /\ roc' = [roc EXCEPT ![p].pc = "done",
                          ![p].out = Out([r EXCEPT !.calls = <<Call(orm.db, "Read")>> \o @])]
    /\ UNCHANGED <<orm, txOrms, dotx, last, nops>>

\* ----- DoTx: one plain Ormer running DoTx, its task and other users
Next ==
  \/ DoTxBegin
  \/ DoTxTask
  \/ DoTxDefer
  \/ DoTxReturn
  \/ Commit
  \/ Rollback
  \/ Insert(DoTxScope)
  \/ Read(DoTxScope)
  \/ Update(DoTxScope)
  \/ Delete(DoTxScope)

Spec == Init /\ [][Next]_vars

\* ----- Begin and every operation of the TxOrmers and of the plain Ormer
NextTx ==
  \/ Begin
  \/ Commit
  \/ Rollback
  \/ Read(TxScope)
  \/ ReadForUpdate(TxScope)
  \/ ReadOrCreate(TxScope)
  \/ Insert(TxScope)
  \/ InsertMulti(TxScope)
  \/ InsertOrUpdate(TxScope)
  \/ Update(TxScope)
  \/ Delete(TxScope)
  \/ LoadRelated(TxScope, {NoArgs})

SpecTx == Init /\ [][NextTx]_vars

\* ----- one call of an entry point of the plain Ormer, on registered and
\* unregistered record types, over a database that already holds rows
Row(t, id, key) == [t |-> t, id |-> id, key |-> key]
InitRows ==
  { {},
    {Row("User", 1, 0)},
    {Row("User", 1, 1), Row("Tag", MaxId, 0)},
    {Row("User", 1, 0), Row("Profile", 1, 0)},
    {Row("Profile", 1, 1)},
    {Row("User", 1, 0), Row("User", 2, 1)} }
InitCrud ==
  \E rows \in InitRows : Start([Store0 EXCEPT !.rows = rows, !.nextId = 3])

NextCrud ==
  \/ Read(CrudScope)
  \/ ReadForUpdate(CrudScope)
  \/ ReadOrCreate(CrudScope)
  \/ Insert(CrudScope)
  \/ InsertMulti(CrudScope)
  \/ InsertOrUpdate(CrudScope)
  \/ Update(CrudScope)
  \/ Delete(CrudScope)
  \/ QueryM2M(CrudScope)
  \/ QueryRelated(CrudScope)
  \/ LoadRelated(CrudScope, {NoArgs})
  \/ QueryTable(CrudScope)
  \/ NewOrm(CrudScope)
  \/ NewOrmWith(CrudScope)

SpecCrud == InitCrud /\ [][NextCrud]_vars

\* ----- one call of a relation operation of the plain Ormer, LoadRelated
\* with every shape of its variadic arguments
NextRel ==
  \/ QueryM2M(CrudScope)
  \/ QueryRelated(CrudScope)
  \/ LoadRelated(CrudScope, LoadArgs)

SpecRel == InitCrud /\ [][NextRel]_vars

\* ----- one call of a context-accepting entry point of the plain Ormer,
\* with a live, a cancelled or an expired context
NextCtx ==
  \/ Read(CtxScope)
  \/ ReadForUpdate(CtxScope)
  \/ ReadOrCreate(CtxScope)
  \/ Insert(CtxScope)
  \/ InsertMulti(CtxScope)
  \/ InsertOrUpdate(CtxScope)
  \/ Update(CtxScope)
  \/ Delete(CtxScope)

SpecCtx == InitCrud /\ [][NextCtx]_vars

\* ----- two callers of ReadOrCreate over a fresh database
NextRoc ==
  \/ \E p \in Procs : RocRead(p)
  \/ \E p \in Procs : RocRest(p)

SpecRoc == Init /\ [][NextRoc]_vars

\* ================================================================ claims
\* a read of the row by its identity on the plain Ormer finds it
PlainSees(row) ==
  LET r == ReadWithCtx(store, orm,
                       [type |-> row.t, byPtr |-> TRUE, id |-> row.id,
                        key |-> (row.key + 1) % (MaxKey + 1), rel |-> pkRel(row.t)],
                       "pk", FALSE)
  IN r.err = Nil /\ r.md.key = row.key

DoTxOver == last.op = "DoTx" /\ dotx.pc = "done" /\ dotx.taskRan
TaskFailed == dotx.outcome # Nil

\* C1: when DoTx has finished and its task only worked through the TxOrmer
\* without ending the transaction itself, none of the rows the task inserted
\* is visible to a read on the plain session if the task failed (error or
\* panic), and a row is visible only if the task returned nil and the
\* commit succeeded.
C1_TxAtomicity ==
  (DoTxOver /\ ~dotx.taskEnded) =>
     /\ TaskFailed => \A r \in dotx.ins : ~PlainSees(r)
     /\ (\E r \in dotx.ins : PlainSees(r)) =>
           (dotx.outcome = Nil /\ dotx.ended = <<"Commit">> /\ dotx.e = Nil)

C1_Witness ==
  /\ DoTxOver /\ ~dotx.taskEnded
  /\ dotx.outcome = "E1"
  /\ Cardinality(dotx.ins) = 2
  /\ \A r \in dotx.ins : ~PlainSees(r)

\* C2: when the task returns a non-nil error E, DoTx calls Rollback and not
\* Commit, and returns exactly E; a failure of Rollback is logged and does
\* not replace E.
C2_TaskError ==
  (DoTxOver /\ dotx.outcome \in {"E1", "E2"}) =>
     /\ dotx.ended = <<"Rollback">>
     /\ dotx.ret = dotx.outcome
     /\ ~dotx.unwound
     /\ dotx.e # Nil => dotx.logs = <<"rollback transaction failed">>

C2_Witness ==
  /\ DoTxOver /\ dotx.outcome = "E2"
  /\ dotx.e = DriverErr
  /\ dotx.ret = "E2"

\* C3: when the task panics, Rollback has been called by the time the panic
\* reaches DoTx's caller, Commit is not called, and the caller gets the
\* panic, not a returned error, whether or not Rollback succeeded.
C3_TaskPanic ==
  /\ dotx.unwound => dotx.ended = <<"Rollback">>
  /\ (DoTxOver /\ dotx.outcome = "panic") =>
        (dotx.unwound /\ dotx.ret = Nil /\ dotx.ended = <<"Rollback">>)

C3_Witness ==
  /\ DoTxOver /\ dotx.outcome = "panic"
  /\ dotx.unwound
  /\ dotx.e = DriverErr

\* C4: DoTx never returns nil for a unit of work whose transaction was not
\* committed (a failure of the final Commit reaches the caller as an error).
C4_NoSwallow ==
  (DoTxOver /\ ~dotx.unwound /\ store.tx[dotx.h].st # "committed") => dotx.ret # Nil

\* in the state before a step: the transaction of handle s is open / over
TxOpen(s) == txOrms[s].db # -1 /\ Usable(store, txOrms[s].db)
TxOver(s) == txOrms[s].db # -1 /\ ~Usable(store, txOrms[s].db)
\* the step is an operation called on handle s
OpOn(s) == last' # last /\ last'.s = s /\ last'.op \notin {"Begin", "DoTxBegin", "DoTx"}

C6_Routing ==
  /\ orm.db = Pool
  /\ \A k \in TxIds : txOrms[k].db \in {-1, k}
  /\ \A k \in TxIds : txOrms[k].db = k => store.tx[k].st # "none"
  /\ \A i \in DOMAIN last.out.calls :
        last.out.calls[i].q = IF last.s = 0 THEN Pool ELSE last.s

C6_Witness ==
  /\ last.s \in TxIds
  /\ last.op = "Insert"
  /\ last.out.err = Nil
  /\ last.out.calls = <<Call(last.s, "Insert")>>
  /\ store.tx[last.s].ins # {}
  /\ store.rows = {}

\* the tables of the registered models
RegisteredTables == {"user", "tag", "profile"}
MdOps ==
  {"Read", "ReadForUpdate", "ReadOrCreate", "Insert", "InsertOrUpdate", "Update",
   "Delete", "QueryM2M", "QueryRelated", "LoadRelated"}
\* the operation l was called on a record type or table name that the
\* Schema Registry does not know
Unknown(l) ==
  \/ l.op \in MdOps /\ l.in.md.type \notin modelCache
  \/ /\ l.op = "InsertMulti"
     /\ l.in.mds.kind # "other"
     /\ l.in.mds.elems # <<>>
     /\ l.in.mds.elems[1].type \notin modelCache
  \/ /\ l.op = "QueryTable"
     /\ IF l.in.col = "table" THEN snakeString(l.in.name) \notin RegisteredTables
        ELSE l.in.name \notin modelCache

\* C7: an entry point called for a record type or table name that is not in
\* the Schema Registry fails (it panics) without a call to the executor and
\* without creating a QuerySet, and leaves the database and the caller's
\* records as they were.
C7_UnknownModel ==
  [][Unknown(last') =>
       /\ last'.out.panic
       /\ last'.out.calls = <<>>
       /\ ~last'.out.qs.made
       /\ last'.out.md = last'.in.md
       /\ last'.out.mds = last'.in.mds.elems
       /\ store' = store]_vars

C7_Witness ==
  /\ last.op = "InsertMulti"
  /\ Unknown(last)
  /\ Len(last.in.mds.elems) = 2
  /\ last.in.bulk = 1
  /\ last.out.panic
  /\ last.out.calls = <<>>

\* C8: after a successful Insert of a record with an auto-generated identity
\* the identity field equals the id Insert returned, and a Read by identity
\* in the same session returns the inserted row; when Insert returns an
\* error the record is as it was.
C8_InsertWriteBack ==
  (last.op = "Insert" /\ ~last.out.panic) =>
     /\ (last.out.err = Nil /\ pkAuto(last.in.md.type)) =>
           /\ last.out.md.id = last.out.ret
           /\ LET probe == [last.out.md EXCEPT !.key = (@ + 1) % (MaxKey + 1)]
                  rd == ReadWithCtx(store, Sess(last.s), probe, "pk", FALSE)
              IN rd.err = Nil /\ rd.md.id = last.out.ret /\ rd.md.key = last.in.md.key
     /\ last.out.err # Nil => last.out.md = last.in.md

C8_Witness ==
  /\ last.op = "Insert"
  /\ last.out.err = Nil
  /\ pkAuto(last.in.md.type)
  /\ last.in.md.id = 0
  /\ last.out.md.id = 3
  /\ last.out.ret = 3

\* C10: InsertMulti with an empty sequence, or with a value that is not an
\* array or slice, returns 0 and ErrArgs for every batch size, calls no
\* executor and leaves the database unchanged.
C10_InsertMultiArgs ==
  [][(last'.op = "InsertMulti"
       /\ (last'.in.mds.kind = "other" \/ last'.in.mds.elems = <<>>)) =>
       /\ last'.out.ret = 0
       /\ last'.out.err = ErrArgs
       /\ ~last'.out.panic
       /\ last'.out.calls = <<>>
       /\ store' = store]_vars

C10_Witness ==
  /\ last.op = "InsertMulti"
  /\ last.in.mds.kind = "slice"
  /\ last.in.mds.elems = <<>>
  /\ last.in.bulk = MaxLen
  /\ last.out.err = ErrArgs
  /\ last.out.ret = 0

\* ReadOrCreate callers p and q were called for the same unique key of the
\* same registered model
Race(p, q) ==
  /\ p # q
  /\ roc[p].pc # "idle" /\ roc[q].pc # "idle"
  /\ roc[p].md0.type = roc[q].md0.type
  /\ roc[p].md0.type \in modelCache
  /\ roc[p].md0.byPtr /\ roc[q].md0.byPtr
  /\ roc[p].col = "key" /\ roc[q].col = "key"
  /\ roc[p].md0.key = roc[q].md0.key
Done(p) == roc[p].pc = "done"
NumCalls(p, stmt) ==
  Cardinality({ i \in DOMAIN roc[p].out.calls : roc[p].out.calls[i].stmt = stmt })
TriedInsert(p) == NumCalls(p, "Insert") > 0

\* C9: of two callers racing on one unique key whose reads did not fail, at
\* most one reports created, a caller whose insert failed gets the failure
\* as a non-nil error with created=false, and a call makes at most one read
\* and at most one insert.
C9_AtMostOneReadInsert ==
  \A p, q \in Procs :
    (Race(p, q) /\ Done(p) /\ Done(q)
      /\ roc[p].rerr \in {Nil, ErrNoRows} /\ roc[q].rerr \in {Nil, ErrNoRows}) =>
       /\ ~(roc[p].out.created /\ roc[q].out.created)
       /\ (TriedInsert(p) /\ ~roc[p].out.created) => roc[p].out.err # Nil
       /\ NumCalls(p, "Read") <= 1
       /\ NumCalls(p, "Insert") <= 1

\* What does hold of ReadOrCreate (C9 without the relational primary key):
\* a caller reports created exactly when its insert succeeded, a failed
\* insert is returned as a non-nil error with created=false and nothing
\* follows an insert; for a model whose primary key is not a relation, of
\* two callers racing on one unique key at most one insert succeeds and a
\* call makes at most one read and at most one insert.  With a relational
\* primary key a call whose read did not return ErrNoRows goes on to
\* ReadOrCreate the related record: one more read, possibly one insert.
C9_Race ==
  /\ Cardinality(store.rows) = Cardinality({ p \in Procs : roc[p].out.created })
  /\ \A p, q \in Procs :
        (Race(p, q) /\ Done(p) /\ Done(q) /\ ~pkRel(roc[p].md0.type)) =>
           ~(roc[p].out.created /\ roc[q].out.created)
  /\ \A p \in Procs :
        Done(p) =>
          LET c == roc[p].out.calls IN
          /\ \A i \in DOMAIN c : c[i].stmt = "Insert" => i = Len(c)
          /\ roc[p].out.created <=> (TriedInsert(p) /\ roc[p].out.err = Nil)
          /\ (TriedInsert(p) /\ ~roc[p].out.created) => roc[p].out.err # Nil
          /\ ~pkRel(roc[p].md0.type) =>
                (NumCalls(p, "Read") <= 1 /\ NumCalls(p, "Insert") <= 1)
          /\ pkRel(roc[p].md0.type) =>
                (NumCalls(p, "Read") <= 2 /\ NumCalls(p, "Insert") <= 1)

\* C9, the interleaving it names: both reads found no row, both callers
\* tried the insert, one lost
C9_Witness ==
  /\ Race(1, 2) /\ Done(1) /\ Done(2)
  /\ roc[1].rerr = ErrNoRows /\ roc[2].rerr = ErrNoRows
  /\ roc[1].out.calls = <<Call(Pool, "Read"), Call(Pool, "Insert")>>
  /\ roc[2].out.calls = <<Call(Pool, "Read"), Call(Pool, "Insert")>>
  /\ roc[1].out.created
  /\ ~roc[2].out.created /\ roc[2].out.err = ErrDup

\* InsertMulti was called in one-by-one mode (bulk <= 1) with a non-empty
\* sequence of records of a registered model
OneByOne(l) ==
  /\ l.op = "InsertMulti"
  /\ l.in.bulk <= 1
  /\ l.in.mds.kind # "other"
  /\ l.in.mds.elems # <<>>
  /\ l.in.mds.elems[1].type \in modelCache
\* the identity the database assigns to the i-th record of the sequence
AssignedId(st, elems, i) ==
  IF pkAuto(elems[i].type) THEN st.nextId + i - 1 ELSE elems[i].id

\* C11: InsertMulti in one-by-one mode with N >= 1 records, none of whose
\* inserts fails, makes exactly N single-row inserts in sequence order,
\* returns N and nil, and every record with an auto-generated identity has
\* the identity the database assigned written back.
C11_OneByOne ==
  [][(OneByOne(last') /\ last'.out.err = Nil) =>
       LET el == last'.in.mds.elems
           N == Len(el)
       IN
       /\ ~last'.out.panic
       /\ last'.out.ret = N
       /\ last'.out.calls = [i \in 1..N |-> Call(Sess(last'.s).db, "Insert")]
       /\ Len(last'.out.mds) = N
       /\ \A i \in 1..N :
             /\ pkAuto(el[i].type) => last'.out.mds[i].id = AssignedId(store, el, i)
             /\ [t |-> el[i].type, id |-> AssignedId(store, el, i), key |-> el[i].key]
                   \in AllRows(store') \ AllRows(store)]_vars

\* What does hold of the one-by-one mode (C11 for a slice, a pointer to an
\* array, elements that are pointers, or a model without an auto-generated
\* identity): the same, when setPk can write to every element.
C11_OneByOneAddressable ==
  [][(OneByOne(last') /\ last'.out.err = Nil
       /\ \A i \in DOMAIN last'.in.mds.elems :
             pkAuto(last'.in.mds.elems[i].type) =>
                Addressable(last'.in.mds, last'.in.mds.elems[i])) =>
       LET el == last'.in.mds.elems
           N == Len(el)
       IN
       /\ ~last'.out.panic
       /\ last'.out.ret = N
       /\ last'.out.calls = [i \in 1..N |-> Call(Sess(last'.s).db, "Insert")]
       /\ \A i \in 1..N :
             pkAuto(el[i].type) => last'.out.mds[i].id = AssignedId(store, el, i)]_vars

\* C11, its case: a slice of MaxLen records with auto-generated identities
\* inserted one by one, both identities written back
C11_Witness ==
  /\ OneByOne(last)
  /\ last.in.mds.kind = "slice"
  /\ Len(last.in.mds.elems) = MaxLen
  /\ \A i \in 1..MaxLen : pkAuto(last.in.mds.elems[i].type) /\ last.in.mds.elems[i].id = 0
  /\ last.out.err = Nil /\ ~last.out.panic
  /\ last.out.ret = MaxLen
  /\ \A i \in 1..MaxLen : last.out.mds[i].id = 2 + i

\* the error of a context that is over: context.Canceled, DeadlineExceeded
CtxErr(ctx) == IF ctx = "canceled" THEN "context.Canceled" ELSE "context.DeadlineExceeded"
CtxOps ==
  {"Read", "ReadForUpdate", "ReadOrCreate", "Insert", "InsertMulti", "InsertOrUpdate",
   "Update", "Delete"}

\* C12: a context-accepting operation called with a context that is
\* cancelled or past its deadline changes nothing in the database and
\* returns the context's error.
C12_CtxCancelled ==
  [][(last'.op \in CtxOps /\ last'.in.ctx # Background) =>
       /\ store' = store
       /\ ~last'.out.panic
       /\ last'.out.err = CtxErr(last'.in.ctx)]_vars

\* C12, its case: Insert with a cancelled context
C12_Witness ==
  /\ last.op = "Insert"
  /\ last.in.ctx = "canceled"
  /\ last.out.err = Nil
  /\ last.out.ret = 3
  /\ [t |-> "User", id |-> 3, key |-> last.in.md.key] \in store.rows

\* the call l meets a configuration error: a record type or table name that
\* is not registered, an unknown alias, an unknown driver
ConfigError(l) ==
  \/ Unknown(l)
  \/ l.op = "NewOrmUsingDB" /\ l.in.name \notin dataBaseCache
  \/ l.op = "NewOrmWithDB" /\ l.in.name \notin drivers

\* C13: a configuration error reaches the immediate caller as a returned
\* error value, not as a panic.
C13_ConfigErrorValue ==
  ConfigError(last) => (~last.out.panic /\ last.out.err # Nil)

\* C13, its case: NewOrmWithDB with an unknown driver returns an error
C13_Witness ==
  /\ last.op = "NewOrmWithDB"
  /\ ConfigError(last)
  /\ ~last.out.panic
  /\ last.out.err = ErrDriver

\* C14: after a successful Begin, DoTx itself makes no terminal call while
\* the task runs, and by the time it ends it has made exactly one: Commit
\* if the task returned nil without panicking, Rollback otherwise; the
\* transaction is not open when DoTx ends.
C14_OneTerminalCall ==
  /\ dotx.pc \in {"idle", "task", "defer"} => dotx.ended = <<>>
  /\ (dotx.taskRan /\ dotx.pc \in {"return", "done"}) =>
        /\ dotx.ended = <<IF dotx.outcome = Nil THEN "Commit" ELSE "Rollback">>
        /\ ~Usable(store, txOrms[dotx.h].db)

\* C14, its case: the task inserted and returned nil, DoTx committed once
C14_Witness ==
  /\ DoTxOver /\ ~dotx.taskEnded
  /\ dotx.outcome = Nil
  /\ dotx.ins # {}
  /\ dotx.ended = <<"Commit">>
  /\ store.tx[dotx.h].st = "committed"
  /\ dotx.ins \subseteq store.rows

\* C15: when Begin fails, DoTx returns Begin's error, has called Begin
\* once, does not invoke the task, makes no terminal call, and no
\* transaction exists.
C15_BeginFails ==
  (dotx.begins # <<>> /\ dotx.begins[1] # Nil) =>
     /\ dotx.begins = <<DriverErr>>
     /\ dotx.pc = "done"
     /\ dotx.ret = DriverErr /\ ~dotx.unwound
     /\ ~dotx.taskRan /\ dotx.outcome = Nil /\ dotx.ins = {}
     /\ dotx.ended = <<>>
     /\ \A k \in TxIds : store.tx[k].st = "none" /\ txOrms[k] = NoOrm

\* C15, its case: Begin failed and DoTx is over
C15_Witness ==
  /\ last.op = "DoTxBegin"
  /\ last.out.err = DriverErr
  /\ dotx.begins = <<DriverErr>>
  /\ dotx.pc = "done"
  /\ dotx.ret = DriverErr

\* the read of line 152 in the ReadOrCreate call l made from store st
FirstRead(st, l) ==
  DbRead(st, Sess(l.s).db, l.in.md.type, l.in.md, l.in.col, 1 \in l.in.fails)
Issued(l, stmt) == \E i \in DOMAIN l.out.calls : l.out.calls[i].stmt = stmt

\* the three cases of ReadOrCreate's result, for the call l made from st
RocResult(st, l) ==
  LET rd == FirstRead(st, l) IN
  /\ l.out.created <=>
        (rd.err = ErrNoRows /\ Issued(l, "Insert") /\ l.out.err = Nil /\ ~l.out.panic)
  /\ rd.err = Nil =>
        /\ ~Issued(l, "Insert")
        /\ ~l.out.created /\ ~l.out.panic
        /\ l.out.ret = rd.md.id
        /\ l.out.err = Nil
  /\ rd.err \notin {Nil, ErrNoRows} =>
        /\ ~Issued(l, "Insert")
        /\ ~l.out.created /\ ~l.out.panic
        /\ l.out.err = rd.err

\* C16: a ReadOrCreate call on a registered model returns created=true
\* exactly when its read returned ErrNoRows and the insert that followed
\* succeeded; when the read finds a row no insert is issued and the call
\* returns created=false, the identity of that row and a nil error; when
\* the read fails otherwise no insert is issued and the call returns that
\* error with created=false.
C16_SingleSession ==
  [][(last'.op = "ReadOrCreate" /\ ~getMiInd(last'.in.md, TRUE).panic) =>
       RocResult(store, last')]_vars

\* What does hold of ReadOrCreate (C16 for a model whose primary key is not
\* a relation): the three cases above.
C16_SingleSessionPlainPk ==
  [][(last'.op = "ReadOrCreate" /\ ~getMiInd(last'.in.md, TRUE).panic
       /\ ~pkRel(last'.in.md.type)) =>
       RocResult(store, last')]_vars

\* C16, its case: the read finds the row of a record whose primary key is a
\* relation, and the call goes on to read the related record and insert it
C16_Witness ==
  /\ last.op = "ReadOrCreate"
  /\ pkRel(last.in.md.type) /\ last.in.md.rel /\ last.in.col = "pk"
  /\ last.in.fails = {}
  /\ \E r \in store.rows : r.t = last.in.md.type /\ r.id = last.in.md.id
  /\ last.out.calls = <<Call(Pool, "Read"), Call(Pool, "Read"), Call(Pool, "Insert")>>
  /\ last.out.created /\ last.out.err = Nil

RECURSIVE FirstFailure(_, _, _, _, _)
\* The single-row inserts of elems[i], elems[i+1], ... handed to executor q
\* one after another from store st: the position k of the first that fails
\* (0: none does), its error, and the store it leaves.
FirstFailure(st, q, elems, i, fails) ==
  IF i > Len(elems) THEN [k |-> 0, err |-> Nil, st |-> st]
  ELSE LET r == DbInsert(st, q, elems[i].type, elems[i], i \in fails) IN
       IF r.err # Nil THEN [k |-> i, err |-> r.err, st |-> st]
       ELSE FirstFailure(r.st, q, elems, i + 1, fails)

\* what InsertMulti call l, made from store st and leaving store su, hands
\* back when the k-th insert is the first to fail
PartialResult(st, su, l) ==
  LET el == l.in.mds.elems
      f == FirstFailure(st, Sess(l.s).db, el, 1, l.in.fails)
  IN
  /\ ~l.out.panic
  /\ l.out.ret = f.k - 1
  /\ l.out.err = f.err
  /\ l.out.calls = [i \in 1..f.k |-> Call(Sess(l.s).db, "Insert")]
  /\ AllRows(su) \ AllRows(st) =
        { [t |-> el[i].type, id |-> AssignedId(st, el, i), key |-> el[i].key] :
            i \in 1..(f.k - 1) }
  /\ Len(l.out.mds) = Len(el)
  /\ \A i \in 1..(f.k - 1) :
        l.out.mds[i] = [el[i] EXCEPT !.id = AssignedId(st, el, i)]
  /\ \A i \in f.k..Len(el) : l.out.mds[i] = el[i]

\* C17: InsertMulti in one-by-one mode where the insert of the k-th record
\* is the first to fail stops there and returns k-1 and that error; the
\* records before the k-th are inserted and carry their identities, the
\* k-th and the later ones are not inserted and are unchanged.
C17_PartialFailure ==
  [][(OneByOne(last')
       /\ FirstFailure(store, Sess(last'.s).db, last'.in.mds.elems, 1,
                       last'.in.fails).k >= 1) =>
       PartialResult(store, store', last')]_vars

\* What does hold of a partial failure (C17 for a slice, a pointer to an
\* array, or elements that are pointers): the same.
C17_PartialFailureAddressable ==
  [][(OneByOne(last')
       /\ FirstFailure(store, Sess(last'.s).db, last'.in.mds.elems, 1,
                       last'.in.fails).k >= 1
       /\ \A i \in DOMAIN last'.in.mds.elems :
             pkAuto(last'.in.mds.elems[i].type) =>
                Addressable(last'.in.mds, last'.in.mds.elems[i])) =>
       PartialResult(store, store', last')]_vars

\* C17, its case: of MaxLen records with auto-generated identities in a
\* slice, the driver fails the last insert
C17_Witness ==
  /\ OneByOne(last)
  /\ last.in.mds.kind = "slice"
  /\ Len(last.in.mds.elems) = MaxLen
  /\ last.in.fails = {MaxLen}
  /\ \A i \in 1..MaxLen : pkAuto(last.in.mds.elems[i].type)
  /\ ~last.out.panic
  /\ last.out.err = DriverErr
  /\ last.out.ret = MaxLen - 1
  /\ last.out.mds[1].id = 3
  /\ last.out.mds[MaxLen].id = 0

\* C18: after a Delete that returns a nil error and a count above 0 the
\* identity field of the record is 0 when it is auto-generated; after a
\* Delete that returns an error or the count 0, and for an identity that is
\* not auto-generated, the record is as it was.
C18_DeleteReset ==
  (last.op = "Delete" /\ ~last.out.panic) =>
     /\ (last.out.err = Nil /\ last.out.ret > 0 /\ pkAuto(last.in.md.type)) =>
           last.out.md = [last.in.md EXCEPT !.id = 0]
     /\ (last.out.err # Nil \/ last.out.ret = 0 \/ ~pkAuto(last.in.md.type)) =>
           last.out.md = last.in.md

\* C18, its case: the row of a record with an auto-generated identity is
\* deleted
C18_Witness ==
  /\ last.op = "Delete"
  /\ pkAuto(last.in.md.type)
  /\ last.in.md.id = 1
  /\ last.out.err = Nil /\ last.out.ret = 1
  /\ last.out.md.id = 0
  /\ \A r \in store.rows : ~(r.t = last.in.md.type /\ r.id = 1)

\* the relation field holds one related record
SingleValued(mi, name) ==
  GetByAny(mi, name).fieldType \in {RelOneToOne, RelForeignKey, RelReverseOne}

====
